---- MODULE Spec2Model ----
(***************************************************************************)
(* Model of the GitLab MCP server.  Spec is the pipeline listing / bulk    *)
(* deletion engine: Service.ListOldPipelines, Service.DeleteOldPipelines,  *)
(* pipelineAge and the list_old_pipelines and delete_old_pipelines tool    *)
(* handlers.  GroupsSpec is the group hierarchy: ListGroupProjectsAll,     *)
(* ListGroupProjects, ListGroupSubgroups and their three tool handlers.    *)
(* CancelSpec is DeleteOldPipelines with a caller that may cancel its      *)
(* context, LiveSpec the two pipeline operations under fairness of their   *)
(* loops, ConcurrentSpec two pipeline invocations running at the same time *)
(* on one Service, RunSpec the start-up in run, and AgeSpec pipelineAge on *)
(* creation times sampled hour by hour.                                    *)
(*                                                                         *)
(* Time is measured in whole hours.  A time.Time value is a record         *)
(* [present, inst, loc]: present = FALSE is the nil *time.Time, inst the   *)
(* instant, loc the location the value is expressed in.  AgeYears, a       *)
(* float64 rounded to two decimals, is kept in hundredths (1.00 = 100).    *)
(* One step of the model is one entry into an operation or one remote      *)
(* call together with all the local computation that follows it up to the  *)
(* next remote call or the return.  The clock is read at whole hours and   *)
(* does not advance within one invocation.  Of a pipeline the model keeps  *)
(* the ID and the creation time; the fields ListOldPipelines copies        *)
(* unchanged (IID, ProjectID, Status, Source, Ref, SHA, WebURL, UpdatedAt) *)
(* are left out.                                                           *)
(***************************************************************************)
EXTENDS Integers, Sequences, FiniteSets, TLC

\* ---------------------------------------------------------------- bounds
MaxTick == 2        \* sampled instants are TimeStep * (0..MaxTick)
TimeStep == 4383    \* hours between two sampled instants (half a Julian year)
MaxRows == 2        \* rows (pipelines, nil entries) of the remote's listing
MaxFetches == 2     \* page fetches of one invocation
MaxYears == 1       \* largest older_than_years argument
MaxSubgroups == 3   \* subgroups, at any depth, below the root group
MaxHoursAgo == 49   \* largest sampled age of a creation time, in hours
MaxOldRows == 1     \* rows of the remote's listing for each of two concurrent invocations
FewProjects == 2    \* projects of a group whose listing fits on one page

\* ------------------------------------------------------ program constants
pipelinePageSize == 100
groupPerPage == 100                 \* ListOptions{PerPage: 100}
HoursPerDay == 24
HundredthsPerUnit == 100
QuarterDaysPerYear == 1461          \* 365.25 days, in quarter days
DaysPerCalendarYear == 365          \* the year AddDate steps over, leap day apart

NoErr == "nil"

\* ctx.Err() of a cancelled context, as a remote call made with it returns it
Canceled == "context canceled"
\* an argument of a tool call: <<>> when absent, <<v>> when given as v
Missing == <<>>

Given(v) == <<v>>

\* ------------------------------------------------------------ time.Time
NilTime == [present |-> FALSE, inst |-> 0, loc |-> "UTC"]

Time(i, l) == [present |-> TRUE, inst |-> i, loc |-> l]

\* t.UTC(): same instant, location set to UTC
UTC(t) == [t EXCEPT !.loc = "UTC"]

\* t.Before(u): comparison of the instants, locations ignored
Before(t, u) == t.inst < u.inst

\* t.AddDate(-years, 0, 0): same calendar date `years` earlier; the span is
\* years * 365 days plus one day for every 29 February it crosses (leap)
AddDate(t, years, leap) ==
    [t EXCEPT !.inst = t.inst + (years * DaysPerCalendarYear + leap) * HoursPerDay]

Instants == {TimeStep * k : k \in 0..MaxTick}

\* -------------------------------------------------------------- strings
\* strings.TrimSpace on a string given as a sequence of characters
RECURSIVE TrimLeft(_)
TrimLeft(s) == IF s # <<>> /\ Head(s) = " " THEN TrimLeft(Tail(s)) ELSE s

RECURSIVE TrimRight(_)
TrimRight(s) ==
    IF s # <<>> /\ s[Len(s)] = " " THEN TrimRight(SubSeq(s, 1, Len(s) - 1)) ELSE s

TrimSpace(s) == TrimRight(TrimLeft(s))

\* ------------------------------------------------------------ pipelineAge
SentinelAge == <<-1, -HundredthsPerUnit>>

\* math.Round(x * 100) for x = hours / 24 / 365.25 >= 0: half rounds up.
\* x * 100 = hours * 400 / (24 * 1461), so the rounded value is
\* floor((hours * 800 + 24 * 1461) / (2 * 24 * 1461))
RoundYears(hours) ==
    (hours * HundredthsPerUnit * 8 + HoursPerDay * QuarterDaysPerYear)
        \div (2 * HoursPerDay * QuarterDaysPerYear)

\* a slip of pipelineAge: the test for a negative duration is left out
pipelineAgeUnchecked(createdAt, clock) ==
    IF ~createdAt.present THEN SentinelAge
    ELSE <<(clock - createdAt.inst) \div HoursPerDay, RoundYears(clock - createdAt.inst)>>

\* a slip of pipelineAge: the days are rounded to the nearest whole number
pipelineAgeRounded(createdAt, clock) ==
    IF ~createdAt.present THEN SentinelAge
    ELSE LET duration == clock - createdAt.inst
         IN  IF duration < 0 THEN SentinelAge
             ELSE <<(2 * duration + HoursPerDay) \div (2 * HoursPerDay), RoundYears(duration)>>

\* pipelineAge(createdAt) with time.Since read from the clock
pipelineAge(createdAt, clock) ==
    IF ~createdAt.present THEN SentinelAge
    ELSE LET duration == clock - createdAt.inst
         IN  IF duration < 0 THEN SentinelAge
             ELSE <<duration \div HoursPerDay, RoundYears(duration)>>

\* --------------------------------------------------- remote pipeline data
NilPipeline == [isNil |-> TRUE, ID |-> 0, CreatedAt |-> NilTime]

\* Pipeline IDs are keys of the remote and the code only copies them: the
\* model numbers the rows of the remote's listing in the order it hands
\* them out, and a pipeline's ID is the number of its row
RowID(served, j) == served + j

CreatedAts == {NilTime} \cup {Time(t, "Local") : t \in Instants}

\* pages the remote can answer with after it handed out `served` rows: any
\* number of the rows left, each a nil entry or a pipeline with or without a
\* creation time
Pages(served) ==
    UNION {{[j \in 1..len |->
                IF c[j] = <<>> THEN NilPipeline
                ELSE [isNil |-> FALSE, ID |-> RowID(served, j), CreatedAt |-> c[j][1]]] :
             c \in [1..len -> {<<>>} \cup {<<t>> : t \in CreatedAts}]} :
           len \in 0..(MaxRows - served)}

\* ------------------------------------------------------- ListOldPipelines
\* a slip of the filter: "on or before" the cutoff in place of "before"
IncludedOnOrBefore(pipeline, cutoff) ==
    /\ ~pipeline.isNil
    /\ pipeline.CreatedAt.present => ~Before(cutoff, UTC(pipeline.CreatedAt))

\* the filter of the page loop: nil entries are skipped, an entry with a
\* creation time is kept only when that time is before the cutoff
Included(pipeline, cutoff) ==
    /\ ~pipeline.isNil
    /\ pipeline.CreatedAt.present => Before(UTC(pipeline.CreatedAt), cutoff)

createdAtPtr(pipeline) ==
    IF pipeline.CreatedAt.present THEN UTC(pipeline.CreatedAt) ELSE NilTime

Summary(pipeline, clock) ==
    LET age == pipelineAge(createdAtPtr(pipeline), clock)
    IN  [ID |-> pipeline.ID, CreatedAt |-> createdAtPtr(pipeline),
         AgeDays |-> age[1], AgeYears |-> age[2]]

\* a slip of the accumulation: a kept entry is put in front of the results
RECURSIVE PrependPage(_, _, _, _)
PrependPage(acc, items, cutoff, clock) ==
    IF items = <<>> THEN acc
    ELSE PrependPage(IF Included(Head(items), cutoff)
                        THEN <<Summary(Head(items), clock)>> \o acc
                        ELSE acc,
                     Tail(items), cutoff, clock)

\* the body of the page loop over one page: results = append(results, ...)
\* for every entry the filter keeps, in the order of the page
RECURSIVE AppendPage(_, _, _, _)
AppendPage(acc, items, cutoff, clock) ==
    IF items = <<>> THEN acc
    ELSE AppendPage(IF Included(Head(items), cutoff)
                       THEN Append(acc, Summary(Head(items), clock))
                       ELSE acc,
                    Tail(items), cutoff, clock)

\* a slip of the loop: the page number is counted up
NextCursorCounted(page, resp) == page + 1

\* opts.Page = resp.NextPage
NextCursor(page, resp) == resp.NextPage

\* a slip of the exit test: the loop goes on although no next page is reported
LastPageIgnored(resp) == FALSE

\* a slip of the exit test: a page without entries ends the loop as well
LastPageOrEmpty(resp) == ~resp.hasResp \/ resp.NextPage = 0 \/ resp.items = <<>>

\* loop exit test after a page
LastPage(resp) == ~resp.hasResp \/ resp.NextPage = 0

\* a slip of the error return: the entries accumulated so far are returned
\* along with the error
ListReturnPartial(resp, acc, wrapped) ==
    [returned |-> TRUE, items |-> acc, err |-> IF resp.err # NoErr THEN wrapped ELSE NoErr]

\* what ListOldPipelines returns when its loop ends on the answer resp with
\* acc accumulated: nil and the wrapped error, or the results and no error
ListReturn(resp, acc, wrapped) ==
    IF resp.err # NoErr
        THEN [returned |-> TRUE, items |-> <<>>, err |-> wrapped]
        ELSE [returned |-> TRUE, items |-> acc, err |-> NoErr]

\* the rows of a page that the request's created_before matches: pipelines
\* with a creation time before the cutoff
RECURSIVE Matching(_, _)
Matching(items, cutoff) ==
    IF items = <<>> THEN 0
    ELSE (IF /\ ~Head(items).isNil
             /\ Head(items).CreatedAt.present
             /\ Before(UTC(Head(items).CreatedAt), cutoff)
            THEN 1 ELSE 0) + Matching(Tail(items), cutoff)

\* ----------------------------------------------------- DeleteOldPipelines
EmptySummary == [TotalCandidates |-> 0, DeletedIDs |-> <<>>, Failed |-> <<>>]

\* result := &PipelineDeletionSummary{TotalCandidates: len(pipelines)}
NewSummary(candidates) == [EmptySummary EXCEPT !.TotalCandidates = Len(candidates)]

\* a slip of the early returns: a failed listing is taken for an empty one
ReturnAfterListSwallowed(lret) ==
    [returned |-> TRUE, hasSummary |-> TRUE, summary |-> NewSummary(lret.items),
     err |-> NoErr]

\* a slip of the early returns: an empty candidate list is reported as an error
ReturnAfterListStrict(lret) ==
    IF lret.err # NoErr \/ lret.items = <<>>
        THEN [returned |-> TRUE, hasSummary |-> FALSE, summary |-> EmptySummary,
              err |-> IF lret.err # NoErr THEN lret.err ELSE "no pipelines found"]
        ELSE [returned |-> TRUE, hasSummary |-> TRUE, summary |-> NewSummary(lret.items),
              err |-> NoErr]

\* what DeleteOldPipelines returns when it returns before its loop: the
\* listing's error without a summary, or the summary of no candidates
ReturnAfterList(lret) ==
    IF lret.err # NoErr
        THEN [returned |-> TRUE, hasSummary |-> FALSE, summary |-> EmptySummary,
              err |-> lret.err]
        ELSE [returned |-> TRUE, hasSummary |-> TRUE, summary |-> NewSummary(lret.items),
              err |-> NoErr]

\* a slip of the loop: the candidates are walked from the last to the first
CandidateReversed(candidates, k) == candidates[Len(candidates) + 1 - k]

\* for _, pipeline := range pipelines: the candidate of the k-th round
Candidate(candidates, k) == candidates[k]

\* a slip of the loop: a failed candidate is tried again
NextCandidateRetry(k, err) == IF err # NoErr THEN k ELSE k + 1

\* the range loop moves on to the next candidate, after a failure
\* (`continue`) as after a success
NextCandidate(k, err) == k + 1

\* a slip of the loop: it ends when the context is found cancelled
RangeDoneOnCancel(candidates, k, err) == k = Len(candidates) \/ err = Canceled

\* a slip of the loop: a failed delete call ends it
RangeDoneOnError(candidates, k, err) == k = Len(candidates) \/ err # NoErr

\* the range loop is over after the round of the last candidate, whatever
\* the outcome of that round or of an earlier one
RangeDone(candidates, k, err) == k = Len(candidates)

\* a slip of the loop body: the `continue` after a failure is left out
RecordNoContinue(summary, id, err) ==
    IF err # NoErr
        THEN [summary EXCEPT !.Failed = Append(@, [PipelineID |-> id, Error |-> err]),
                             !.DeletedIDs = Append(@, id)]
        ELSE [summary EXCEPT !.DeletedIDs = Append(@, id)]

\* the body of the deletion loop on the outcome of the delete call
Record(summary, id, err) ==
    IF err # NoErr
        THEN [summary EXCEPT !.Failed = Append(@, [PipelineID |-> id, Error |-> err])]
        ELSE [summary EXCEPT !.DeletedIDs = Append(@, id)]

\* -------------------------------------------------------- group hierarchy
\* The remote's groups: the root group, which the identifier of a call
\* resolves to, and below it the subgroups DOMAIN t of a tree t, where t[k]
\* is the parent of subgroup k.  A group's ID is its number, its path the
\* numbers from the root down to it.
RootID == 1

Trees ==
    UNION {{t \in [2..(n + 1) -> 1..(n + 1)] : \A k \in 2..(n + 1) : t[k] < k} :
           n \in 0..MaxSubgroups}

RECURSIVE FullPath(_, _)
FullPath(t, k) == IF k \in DOMAIN t THEN Append(FullPath(t, t[k]), k) ELSE <<k>>

\* a *gitlab.Group as the remote returns it
RemoteGroup(t, k) ==
    [ID |-> k, Path |-> k, FullPath |-> FullPath(t, k),
     ParentID |-> IF k \in DOMAIN t THEN t[k] ELSE 0]

NoGroup == [ID |-> 0, Path |-> 0, FullPath |-> <<>>, ParentID |-> 0]

RECURSIVE IsAncestor(_, _, _)
IsAncestor(t, a, k) == k \in DOMAIN t /\ (t[k] = a \/ IsAncestor(t, a, t[k]))

\* the subgroups of the hierarchy by ascending number, the order in which
\* the remote lists them
AllSubgroups(t) == [n \in 1..Cardinality(DOMAIN t) |-> RemoteGroup(t, RootID + n)]

\* GET /groups/:id/subgroups: the immediate children of gid
ChildrenOf(t, gid) ==
    LET child(g) == g.ParentID = gid
    IN  SelectSeq(AllSubgroups(t), child)

\* GET /groups/:id/descendant_groups: the subgroups of gid at every depth
DescendantsOf(t, gid) ==
    LET below(g) == IsAncestor(t, gid, g.ID)
    IN  SelectSeq(AllSubgroups(t), below)

\* the endpoint ListGroupProjectsAll asks for the subgroups to walk
DescendantsEndpoint == "ListDescendantGroups"

\* a slip of ListGroupSubgroups: the endpoint of the walk is asked
SubgroupsEndpointDeep == "ListDescendantGroups"

\* the endpoint ListGroupSubgroups asks
SubgroupsEndpoint == "ListSubGroups"

\* the remote's answer to a subgroup listing (the model's hierarchies have
\* fewer subgroups than one page holds)
GroupsAnswer(endpoint, t, gid) ==
    IF endpoint = "ListSubGroups" THEN ChildrenOf(t, gid) ELSE DescendantsOf(t, gid)

\* The projects of a group are the rows 1..total of the remote's listing; a
\* project's ID is the group and the row, every other row is archived.
RemoteProject(gid, row) == [ID |-> <<gid, row>>, Archived |-> row % 2 = 0]

\* the number of projects a group may hold: a few, or one more than a page
Totals == {FewProjects, groupPerPage + 1}

Min(a, b) == IF a < b THEN a ELSE b

\* the projects of a group that the listing options select, in row order
MatchingProjects(gid, total, archivedOpt) ==
    LET selected(p) == archivedOpt = Missing \/ p.Archived = archivedOpt[1]
    IN  SelectSeq([row \in 1..total |-> RemoteProject(gid, row)], selected)

\* GET /groups/:id/projects: the first page of the selected projects, and the
\* number of the next page when there are more
ProjectsAnswer(gid, total, archivedOpt, perPage) ==
    LET all == MatchingProjects(gid, total, archivedOpt)
    IN  [items |-> SubSeq(all, 1, Min(Len(all), perPage)),
         NextPage |-> IF Len(all) > perPage THEN 2 ELSE 0]

\* a slip of the options: the flag is sent whatever its value
ArchivedOptToggle(archivedOnly) == Given(archivedOnly)

\* opts.Archived of ListGroupProjectsAll: set to true when archived is true,
\* left out otherwise
ArchivedOpt(archivedOnly) == IF archivedOnly THEN Given(TRUE) ELSE Missing

\* Project{...} of a project of the resolved group (Name, Path,
\* PathWithNamespace, WebURL and CloneURL are copied and left out here)
DirectProject(p, group) ==
    [ID |-> p.ID, GroupPath |-> group.Path, IsSubgroupProject |-> FALSE,
     SubgroupFullPath |-> <<>>]

\* Project{...} of a project of a descendant subgroup
SubgroupProject(p, subgroup) ==
    [ID |-> p.ID, GroupPath |-> subgroup.Path, IsSubgroupProject |-> TRUE,
     SubgroupFullPath |-> subgroup.FullPath]

\* Subgroup{...} of ListGroupSubgroups (Name and WebURL are copied and left
\* out here)
SubgroupOf(subgroup, group) ==
    [ID |-> subgroup.ID, Path |-> subgroup.Path, FullPath |-> subgroup.FullPath,
     ParentID |-> group.ID]

\* a slip of the first check: the error of GetGroup is not looked at
GetGroupFailedIgnored(err) == FALSE

\* if err != nil after GetGroup
GetGroupFailed(err) == err # NoErr

\* the range loop over descendantGroups is over after the round of the last
\* subgroup; a failed listing is logged and the loop goes on (continue)
SubgroupsDone(descendants, k, err) == k = Len(descendants)

RemoteError == "remote error"

\* fmt.Errorf("<what>: %w", err): the message is known by its prefix
WrapGroupError(what, err) == IF err = NoErr THEN NoErr ELSE what

\* ------------------------------------------------------------------ state
VARIABLES
    now,          \* the wall clock, read by time.Now and time.Since
    pc,           \* "idle", "list" (page loop), "delete" (deletion loop), "done"
    entry,        \* "none", "service" (called directly), "tool" (called by a handler)
    op,           \* "none", "ListOldPipelines", "DeleteOldPipelines"
    request,      \* arguments of the tool call
    project,      \* projectIDOrPath
    cutoff,       \* ListOldPipelines: cutoff
    optsPage,     \* ListOldPipelines: opts.Page
    results,      \* ListOldPipelines: results
    pipelines,    \* DeleteOldPipelines: pipelines, the candidates
    i,            \* DeleteOldPipelines: position of the range loop
    result,       \* DeleteOldPipelines: *result
    listRet,      \* what ListOldPipelines returned
    deleteRet,    \* what DeleteOldPipelines returned
    toolResult,   \* what the handler returned
    fetches,      \* remote: number of ListProjectPipelines calls received
    served,       \* remote: number of rows handed out
    matched,      \* remote: number of rows handed out that created_before matches
    lastFetch,    \* remote: the latest ListProjectPipelines call and its answer
    deleteCalls,  \* remote: the DeletePipeline calls and their outcomes
    ctx           \* the caller's context: "live" or "canceled"

VARIABLES
    tree,             \* remote: the hierarchy below the root group
    archived,         \* ListGroupProjectsAll: archived
    group,            \* the three group operations: group
    allProjects,      \* ListGroupProjectsAll: allProjects; ListGroupProjects: projects
    descendantGroups, \* ListGroupProjectsAll: descendantGroups
    j,                \* ListGroupProjectsAll: position of the range loop
    groupRet,         \* what the group operation returned
    groupCalls,       \* remote: the calls of the group operation and their outcomes
    logged            \* the lines written to s.log

VARIABLES
    args,         \* run: args[1:], the command line after the program name
    getenv,       \* run: the environment, by variable name
    useHTTP,      \* run: the --http flag
    httpAddr,     \* run: the --addr flag
    serverURL,    \* run: serverURL
    started,      \* the calls of the server starter and what each returned
    runRet        \* what run returned

VARIABLES
    hoursAgo,     \* pipelineAge: how long ago, in hours, each sampled *createdAt lies
    ages          \* pipelineAge: what it returned for each sample

VARIABLES
    frames,       \* concurrent invocations: the local variables of each
    answered      \* remote: what it was asked by and answered to each invocation

pipelineVars == <<now, project, cutoff, optsPage, results, pipelines, i, result,
                  listRet, deleteRet, fetches, served, matched, lastFetch,
                  deleteCalls, ctx>>

groupVars == <<tree, archived, group, allProjects, descendantGroups, j, groupRet,
               groupCalls, logged>>

runVars == <<args, getenv, useHTTP, httpAddr, serverURL, started, runRet>>

ageVars == <<hoursAgo, ages>>

concurrentVars == <<frames, answered>>

\* the state of the parts of the program a pipeline or group operation does
\* not touch
otherVars == <<runVars, ageVars, concurrentVars>>

\* the state of the tools and of the service operations
toolVars == <<entry, op, request, toolResult, pipelineVars, groupVars>>

vars == <<now, pc, entry, op, request, project, cutoff, optsPage, results,
          pipelines, i, result, listRet, deleteRet, toolResult, fetches,
          served, matched, lastFetch, deleteCalls, ctx, tree, archived, group,
          allProjects, descendantGroups, j, groupRet, groupCalls, logged, args,
          getenv, useHTTP, httpAddr, serverURL, started, runRet, hoursAgo, ages,
          frames, answered>>

NoRequest == [name |-> "", project |-> Missing, years |-> Missing, confirm |-> Missing]

\* the CallToolRequest of a tool: its name and its arguments
ToolRequest(name, arguments) == [name |-> name] @@ arguments

NoListRet == [returned |-> FALSE, items |-> <<>>, err |-> NoErr]

NoDeleteRet == [returned |-> FALSE, hasSummary |-> FALSE, summary |-> EmptySummary, err |-> NoErr]

NoToolResult == [returned |-> FALSE, text |-> "", err |-> NoErr]

ProjectPath == <<"p">>

NoResponse == [err |-> NoErr, items |-> <<>>, hasResp |-> FALSE, NextPage |-> 0]

NoGroupRet == [returned |-> FALSE, items |-> <<>>, err |-> NoErr]

\* no group operation has run
GroupsIdle ==
    /\ archived = FALSE
    /\ group = NoGroup
    /\ allProjects = <<>>
    /\ descendantGroups = <<>>
    /\ j = 0
    /\ groupRet = NoGroupRet
    /\ groupCalls = <<>>
    /\ logged = <<>>

NoRunRet == [returned |-> FALSE, err |-> NoErr]

DefaultAddr == ":8000"

\* run has not been called
RunIdle ==
    /\ args = <<>>
    /\ getenv = [GITLAB_ACCESS_TOKEN |-> <<>>, GITLAB_SERVER_URL |-> <<>>]
    /\ useHTTP = FALSE
    /\ httpAddr = DefaultAddr
    /\ serverURL = <<>>
    /\ started = <<>>
    /\ runRet = NoRunRet

\* pipelineAge is not being sampled
AgeIdle == hoursAgo = <<>> /\ ages = <<>>

\* the goroutines serving tool calls at the same time
Invocations == 1..2

NoFrame ==
    [op |-> "none", pc |-> "idle", cutoff |-> NilTime, optsPage |-> 0, results |-> <<>>,
     pipelines |-> <<>>, i |-> 0, result |-> EmptySummary,
     ret |-> [returned |-> FALSE, items |-> <<>>, hasSummary |-> FALSE,
              summary |-> EmptySummary, err |-> NoErr]]

NoneAnswered ==
    [rows |-> <<>>, requested |-> <<>>, reported |-> <<>>, err |-> NoErr, outcomes |-> <<>>]

\* no invocation is running
ConcurrentIdle ==
    /\ frames = [p \in Invocations |-> NoFrame]
    /\ answered = [p \in Invocations |-> NoneAnswered]

OthersIdle == RunIdle /\ AgeIdle /\ ConcurrentIdle

NoFetch ==
    [project |-> <<>>, Page |-> 0, PerPage |-> 0, CreatedBefore |-> NilTime,
     OrderBy |-> "", Sort |-> "", resp |-> NoResponse]

Init ==
    /\ now \in Instants
    /\ pc = "idle"
    /\ entry = "none"
    /\ op = "none"
    /\ request = NoRequest
    /\ project = <<>>
    /\ cutoff = NilTime
    /\ optsPage = 0
    /\ results = <<>>
    /\ pipelines = <<>>
    /\ i = 0
    /\ result = EmptySummary
    /\ listRet = NoListRet
    /\ deleteRet = NoDeleteRet
    /\ toolResult = NoToolResult
    /\ fetches = 0
    /\ served = 0
    /\ matched = 0
    /\ lastFetch = NoFetch
    /\ deleteCalls = <<>>
    /\ ctx = "live"
    /\ tree = <<>>
    /\ GroupsIdle
    /\ OthersIdle

\* ------------------------------------------------------- the remote's answers
ListError == "remote error"

DeleteError == "delete failed"

\* fmt.Errorf("list project pipelines: %w", err)
WrapListError(err) ==
    IF err = ListError THEN "list project pipelines: remote error"
    ELSE IF err = Canceled THEN "list project pipelines: context canceled"
    ELSE err

\* the response metadata: none, no next page, or a next page (the one after
\* the page asked for, or one further on)
Cursors(page, mustEnd) ==
    {<<FALSE, 0>>, <<TRUE, 0>>}
        \cup (IF mustEnd THEN {} ELSE {<<TRUE, page + 1>>, <<TRUE, page + 2>>})

\* the outcomes of ListProjectPipelines; a call made with a cancelled
\* context fails
Responses(page, mustEnd) ==
    IF ctx = "canceled"
        THEN {[err |-> Canceled, items |-> <<>>, hasResp |-> FALSE, NextPage |-> 0]}
        ELSE {[err |-> ListError, items |-> <<>>, hasResp |-> FALSE, NextPage |-> 0]}
                \cup {[err |-> NoErr, items |-> p, hasResp |-> c[1], NextPage |-> c[2]] :
                         p \in Pages(served), c \in Cursors(page, mustEnd)}

\* the outcomes of DeletePipeline; a call made with a cancelled context fails
DeleteOutcomes == IF ctx = "canceled" THEN {Canceled} ELSE {NoErr, DeleteError}

\* ------------------------------------------------------------ tool results
\* tail of handleDeleteOldPipelines, from the return of DeleteOldPipelines on
DeleteToolResult(ret) ==
    IF ret.err # NoErr
        THEN [returned |-> TRUE, text |-> "Error deleting old pipelines", err |-> NoErr]
    ELSE IF ret.summary.TotalCandidates = 0
        THEN [returned |-> TRUE, text |-> "No pipelines are older", err |-> NoErr]
    ELSE IF Len(ret.summary.Failed) > 0
        THEN [returned |-> TRUE, text |-> "Deleted. Some deletions failed", err |-> NoErr]
    ELSE [returned |-> TRUE, text |-> "Deleted", err |-> NoErr]

ToolReturn(ret) == IF entry = "tool" THEN DeleteToolResult(ret) ELSE toolResult

\* tail of handleListOldPipelines, from the return of ListOldPipelines on
ListToolResult(ret) ==
    IF ret.err # NoErr
        THEN [returned |-> TRUE, text |-> "Error listing old pipelines", err |-> NoErr]
    ELSE IF Len(ret.items) = 0
        THEN [returned |-> TRUE, text |-> "No pipelines are older", err |-> NoErr]
    ELSE [returned |-> TRUE, text |-> "Found pipelines", err |-> NoErr]

ListToolReturn(ret) == IF entry = "tool" THEN ListToolResult(ret) ELSE toolResult

\* ---------------------------------------------------------------- actions
\* entry into ListOldPipelines: cutoff and opts are set up, results is empty
EnterList(before) ==
    /\ cutoff' = UTC(before)
    /\ optsPage' = 1
    /\ results' = <<>>
    /\ pc' = "list"
    /\ UNCHANGED <<now, pipelines, i, result, listRet, deleteRet, toolResult,
                   fetches, served, matched, lastFetch, deleteCalls, ctx>>
    /\ UNCHANGED <<groupVars, otherVars>>

\* the `before` argument of a direct call, in the caller's local time (the
\* tool handler passes a UTC time)
Cutoffs == {Time(t, "Local") : t \in Instants}

\* a direct call of Service.ListOldPipelines
CallListOldPipelines ==
    /\ pc = "idle"
    /\ \E before \in Cutoffs : EnterList(before)
    /\ entry' = "service"
    /\ op' = "ListOldPipelines"
    /\ project' = ProjectPath
    /\ UNCHANGED request

\* a direct call of Service.DeleteOldPipelines; its first statement is the
\* call of ListOldPipelines
CallDeleteOldPipelines ==
    /\ pc = "idle"
    /\ \E before \in Cutoffs : EnterList(before)
    /\ entry' = "service"
    /\ op' = "DeleteOldPipelines"
    /\ project' = ProjectPath
    /\ UNCHANGED request

\* request.GetBool("confirm", false)
GetBool(value, default) == IF value = Missing THEN default ELSE value[1]

Requests ==
    [project : {Missing} \cup {Given(s) : s \in {<<>>, <<" ">>, <<" ", "p">>}},
     years : {Missing} \cup {Given(y) : y \in -1..MaxYears},
     confirm : {Missing, Given(TRUE), Given(FALSE)}]

\* the checks of handleListOldPipelines before the service is called: the
\* result of the rejection, or NoToolResult when the call goes ahead
ValidateList(req) ==
    IF req.project = Missing
        THEN [returned |-> TRUE, text |-> "", err |-> "project_id_or_path is required"]
    ELSE IF TrimSpace(req.project[1]) = <<>>
        THEN [returned |-> TRUE, text |-> "project_id_or_path cannot be empty", err |-> NoErr]
    ELSE IF req.years = Missing
        THEN [returned |-> TRUE, text |-> "", err |-> "older_than_years is required"]
    ELSE IF req.years[1] <= 0
        THEN [returned |-> TRUE, text |-> "older_than_years must be greater than zero", err |-> NoErr]
    ELSE NoToolResult

\* a slip of the handler: the sign of older_than_years is not looked at
ValidateAnyYears(req) ==
    IF req.project = Missing
        THEN [returned |-> TRUE, text |-> "", err |-> "project_id_or_path is required"]
    ELSE IF TrimSpace(req.project[1]) = <<>>
        THEN [returned |-> TRUE, text |-> "project_id_or_path cannot be empty", err |-> NoErr]
    ELSE IF req.years = Missing
        THEN [returned |-> TRUE, text |-> "", err |-> "older_than_years is required"]
    ELSE IF ~GetBool(req.confirm, FALSE)
        THEN [returned |-> TRUE, text |-> "Deletion not performed: set confirm=true", err |-> NoErr]
    ELSE NoToolResult

\* a slip of the handler: the confirm flag is not looked at
ValidateNoConfirm(req) ==
    IF req.project = Missing
        THEN [returned |-> TRUE, text |-> "", err |-> "project_id_or_path is required"]
    ELSE IF TrimSpace(req.project[1]) = <<>>
        THEN [returned |-> TRUE, text |-> "project_id_or_path cannot be empty", err |-> NoErr]
    ELSE IF req.years = Missing
        THEN [returned |-> TRUE, text |-> "", err |-> "older_than_years is required"]
    ELSE IF req.years[1] <= 0
        THEN [returned |-> TRUE, text |-> "older_than_years must be greater than zero", err |-> NoErr]
    ELSE NoToolResult

\* the checks of handleDeleteOldPipelines before the service is called: the
\* result of the rejection, or NoToolResult when the call goes ahead
Validate(req) ==
    IF req.project = Missing
        THEN [returned |-> TRUE, text |-> "", err |-> "project_id_or_path is required"]
    ELSE IF TrimSpace(req.project[1]) = <<>>
        THEN [returned |-> TRUE, text |-> "project_id_or_path cannot be empty", err |-> NoErr]
    ELSE IF req.years = Missing
        THEN [returned |-> TRUE, text |-> "", err |-> "older_than_years is required"]
    ELSE IF req.years[1] <= 0
        THEN [returned |-> TRUE, text |-> "older_than_years must be greater than zero", err |-> NoErr]
    ELSE IF ~GetBool(req.confirm, FALSE)
        THEN [returned |-> TRUE, text |-> "Deletion not performed: set confirm=true", err |-> NoErr]
    ELSE NoToolResult

\* the delete_old_pipelines tool is called
handleDeleteOldPipelines ==
    /\ pc = "idle"
    /\ \E req \in Requests :
          /\ request' = ToolRequest("delete_old_pipelines", req)
          /\ entry' = "tool"
          /\ IF Validate(req).returned
                THEN /\ toolResult' = Validate(req)
                     /\ pc' = "done"
                     /\ op' = "none"
                     /\ project' = IF req.project = Missing THEN <<>> ELSE TrimSpace(req.project[1])
                     /\ UNCHANGED <<now, cutoff, optsPage, results, pipelines, i, result,
                                    listRet, deleteRet, fetches, served, matched, lastFetch,
                                    deleteCalls, ctx>>
                     /\ UNCHANGED <<groupVars, otherVars>>
                ELSE /\ op' = "DeleteOldPipelines"
                     /\ project' = TrimSpace(req.project[1])
                     /\ \E leap \in 0..((req.years[1] + 3) \div 4) :
                           EnterList(AddDate(Time(now, "UTC"), -req.years[1], -leap))

\* the list_old_pipelines tool is called; it has no confirm argument
handleListOldPipelines ==
    /\ pc = "idle"
    /\ \E req \in {r \in Requests : r.confirm = Missing} :
          /\ request' = ToolRequest("list_old_pipelines", req)
          /\ entry' = "tool"
          /\ IF ValidateList(req).returned
                THEN /\ toolResult' = ValidateList(req)
                     /\ pc' = "done"
                     /\ op' = "none"
                     /\ project' = IF req.project = Missing THEN <<>> ELSE TrimSpace(req.project[1])
                     /\ UNCHANGED <<now, cutoff, optsPage, results, pipelines, i, result,
                                    listRet, deleteRet, fetches, served, matched, lastFetch,
                                    deleteCalls, ctx>>
                     /\ UNCHANGED <<groupVars, otherVars>>
                ELSE /\ op' = "ListOldPipelines"
                     /\ project' = TrimSpace(req.project[1])
                     /\ \E leap \in 0..((req.years[1] + 3) \div 4) :
                           EnterList(AddDate(Time(now, "UTC"), -req.years[1], -leap))

\* one round of the page loop of ListOldPipelines: the remote call, the
\* filtering of the page and either the next cursor or the return, and on a
\* return the caller's code up to its next remote call
ListProjectPipelines ==
    /\ pc = "list"
    /\ fetches < MaxFetches
    /\ \E resp \in Responses(optsPage, fetches + 1 = MaxFetches) :
          LET failed == resp.err # NoErr
              acc == IF failed THEN results
                     ELSE AppendPage(results, resp.items, cutoff, now)
              returns == failed \/ LastPage(resp)
              lret == ListReturn(resp, acc, WrapListError(resp.err))
              dret == ReturnAfterList(lret)
          IN  /\ fetches' = fetches + 1
              /\ served' = served + Len(resp.items)
              /\ matched' = matched + Matching(resp.items, cutoff)
              /\ lastFetch' =
                    [project |-> project, Page |-> optsPage, PerPage |-> pipelinePageSize,
                     CreatedBefore |-> cutoff, OrderBy |-> "created_at", Sort |-> "asc",
                     resp |-> resp]
              /\ results' = acc
              /\ IF ~returns
                    THEN /\ optsPage' = NextCursor(optsPage, resp)
                         /\ UNCHANGED <<pc, pipelines, i, result, listRet, deleteRet, toolResult>>
                 ELSE IF op = "ListOldPipelines"
                    THEN /\ listRet' = lret
                         /\ toolResult' = ListToolReturn(lret)
                         /\ pc' = "done"
                         /\ UNCHANGED <<optsPage, pipelines, i, result, deleteRet>>
                 ELSE IF failed \/ Len(acc) = 0
                    THEN /\ listRet' = lret
                         /\ pipelines' = lret.items
                         /\ result' = IF failed THEN result ELSE NewSummary(acc)
                         /\ deleteRet' = dret
                         /\ toolResult' = ToolReturn(dret)
                         /\ pc' = "done"
                         /\ UNCHANGED <<optsPage, i>>
                 ELSE /\ listRet' = lret
                      /\ pipelines' = acc
                      /\ result' = NewSummary(acc)
                      /\ i' = 1
                      /\ pc' = "delete"
                      /\ UNCHANGED <<optsPage, deleteRet, toolResult>>
    /\ UNCHANGED <<now, entry, op, request, project, cutoff, deleteCalls, ctx>>
    /\ UNCHANGED <<groupVars, otherVars>>

\* one round of the deletion loop of DeleteOldPipelines: the remote call,
\* the recording of its outcome and, after the last candidate, the return
DeletePipeline ==
    /\ pc = "delete"
    /\ \E err \in DeleteOutcomes :
          LET id == Candidate(pipelines, i).ID
              summary == Record(result, id, err)
              dret == [returned |-> TRUE, hasSummary |-> TRUE, summary |-> summary, err |-> NoErr]
          IN  /\ deleteCalls' = Append(deleteCalls,
                    [project |-> project, PipelineID |-> id, err |-> err])
              /\ result' = summary
              /\ IF ~RangeDone(pipelines, i, err)
                    THEN /\ i' = NextCandidate(i, err)
                         /\ UNCHANGED <<pc, deleteRet, toolResult>>
                    ELSE /\ deleteRet' = dret
                         /\ toolResult' = ToolReturn(dret)
                         /\ pc' = "done"
                         /\ UNCHANGED i
    /\ UNCHANGED <<now, entry, op, request, project, cutoff, optsPage, results,
                   pipelines, listRet, fetches, served, matched, lastFetch, ctx>>
    /\ UNCHANGED <<groupVars, otherVars>>

Next ==
    \/ CallListOldPipelines
    \/ CallDeleteOldPipelines
    \/ handleListOldPipelines
    \/ handleDeleteOldPipelines
    \/ ListProjectPipelines
    \/ DeletePipeline

Spec == Init /\ [][Next]_vars

\* the caller cancels the context while DeleteOldPipelines is running
Cancel ==
    /\ pc \in {"list", "delete"}
    /\ ctx = "live"
    /\ ctx' = "canceled"
    /\ UNCHANGED <<now, pc, entry, op, request, project, cutoff, optsPage, results,
                   pipelines, i, result, listRet, deleteRet, toolResult, fetches,
                   served, matched, lastFetch, deleteCalls>>
    /\ UNCHANGED <<groupVars, otherVars>>

\* DeleteOldPipelines called by a caller that may cancel its context
CancelNext ==
    \/ CallDeleteOldPipelines
    \/ ListProjectPipelines
    \/ DeletePipeline
    \/ Cancel

CancelSpec == Init /\ [][CancelNext]_vars

\* direct calls of the two pipeline operations at one reading of the clock,
\* with a remote that answers every call and, after finitely many page
\* fetches, reports an error or no next page
LiveInit == Init /\ now = TimeStep * MaxTick

LiveNext ==
    \/ CallListOldPipelines
    \/ CallDeleteOldPipelines
    \/ ListProjectPipelines
    \/ DeletePipeline

\* the steps of LiveNext that are rounds of the page loop, by the enabling
\* condition of ListProjectPipelines and the fetch it counts
ListRound == pc = "list" /\ fetches < MaxFetches /\ fetches' = fetches + 1

\* the goroutine of an invocation keeps running and every remote call returns
LiveSpec ==
    /\ LiveInit
    /\ [][LiveNext]_vars
    /\ WF_fetches(ListRound)
    /\ WF_vars(DeletePipeline)

\* ------------------------------------------------- group tools: results
GroupRet(items, err) == [returned |-> TRUE, items |-> items, err |-> err]

\* tail of handleListAllGroupProjects, handleListDirectGroupProjects and
\* handleListSubgroups, from the return of the service on: the text of the
\* result with the values formatted into it
GroupToolResult(name, req, archivedOnly, ret) ==
    IF ret.err # NoErr
        THEN [returned |-> TRUE,
              text |-> IF name = "ListGroupProjectsAll" THEN "Error fetching projects"
                       ELSE IF name = "ListGroupProjects" THEN "Error fetching direct projects"
                       ELSE "Error fetching subgroups",
              detail |-> ret.err, count |-> 0, statusText |-> "", group |-> req.group[1],
              json |-> <<>>, err |-> NoErr]
        ELSE [returned |-> TRUE,
              text |-> IF name = "ListGroupProjectsAll" THEN "Found projects in group and its subgroups"
                       ELSE IF name = "ListGroupProjects" THEN "Found direct projects in group"
                       ELSE "Found subgroups in group",
              detail |-> NoErr, count |-> Len(ret.items),
              statusText |-> IF name # "ListGroupProjectsAll" THEN ""
                             ELSE IF archivedOnly THEN "archived" ELSE "all",
              group |-> req.group[1], json |-> ret.items, err |-> NoErr]

\* a remote call of the group operations as the remote records it
GroupCall(call, path, gid, archivedOpt, err, total, matching, count, nextPage) ==
    [call |-> call, path |-> path, gid |-> gid, Archived |-> archivedOpt,
     PerPage |-> IF call = "GetGroup" THEN 0 ELSE groupPerPage,
     err |-> err, total |-> total, matching |-> matching, count |-> count,
     NextPage |-> nextPage]

\* the outcomes of a project listing: an error, or a group holding `total`
\* projects
ListingOutcomes == {<<RemoteError, 0>>} \cup {<<NoErr, n>> : n \in Totals}

\* the empty string as an identifier
EmptyIdentifier == <<>>

GroupRequests ==
    [group : {Missing, Given(<<RootID>>)},
     archived : {Missing, Given(TRUE), Given(FALSE)}]
        \cup {[group |-> Given(EmptyIdentifier), archived |-> Missing]}

\* ------------------------------------------------ group tools: actions
\* the service returns and the handler builds its result
ReturnGroups(items, err) ==
    /\ groupRet' = GroupRet(items, err)
    /\ toolResult' = GroupToolResult(op, request, archived, GroupRet(items, err))
    /\ pc' = "done"

\* the head of a group tool handler: the identifier is required, the
\* archived flag defaults to false, then the service is called
EnterGroups(name, req) ==
    /\ request' = ToolRequest(IF name = "ListGroupProjectsAll" THEN "list_all_group_projects"
                              ELSE IF name = "ListGroupProjects" THEN "list_direct_group_projects"
                              ELSE "list_subgroups", req)
    /\ entry' = "tool"
    /\ IF req.group = Missing
          THEN /\ toolResult' = [returned |-> TRUE, text |-> "", detail |-> NoErr,
                                 count |-> 0, statusText |-> "", group |-> <<>>,
                                 json |-> <<>>, err |-> "group_id_or_path is required"]
               /\ pc' = "done"
               /\ UNCHANGED <<op, archived>>
          ELSE /\ op' = name
               /\ archived' = IF name = "ListGroupProjectsAll"
                                 THEN GetBool(req.archived, FALSE) ELSE FALSE
               /\ pc' = "GetGroup"
               /\ UNCHANGED toolResult
    /\ UNCHANGED <<tree, group, allProjects, descendantGroups, j, groupRet,
                   groupCalls, logged>>
    /\ UNCHANGED <<pipelineVars, otherVars>>

\* the list_all_group_projects tool is called
handleListAllGroupProjects ==
    /\ pc = "idle"
    /\ \E req \in GroupRequests : EnterGroups("ListGroupProjectsAll", req)

\* the list_direct_group_projects tool is called
handleListDirectGroupProjects ==
    /\ pc = "idle"
    /\ \E req \in {r \in GroupRequests : r.archived = Missing} :
          EnterGroups("ListGroupProjects", req)

\* the list_subgroups tool is called
handleListSubgroups ==
    /\ pc = "idle"
    /\ \E req \in {r \in GroupRequests : r.archived = Missing} :
          EnterGroups("ListGroupSubgroups", req)

\* first statement of the three service operations: the group is resolved
GetGroup ==
    /\ pc = "GetGroup"
    /\ \E err \in {NoErr, RemoteError} :
          /\ groupCalls' = Append(groupCalls,
                GroupCall("GetGroup", request.group[1], 0, Missing, err, 0, 0, 0, 0))
          /\ IF GetGroupFailed(err)
                THEN /\ ReturnGroups(<<>>, WrapGroupError("get group", err))
                     /\ UNCHANGED group
                ELSE /\ group' = IF err = NoErr THEN RemoteGroup(tree, RootID) ELSE NoGroup
                     /\ pc' = IF op = "ListGroupSubgroups" THEN "ListSubGroups"
                              ELSE "ListGroupProjects"
                     /\ UNCHANGED <<groupRet, toolResult>>
    /\ UNCHANGED <<tree, entry, op, request, archived, allProjects, descendantGroups,
                   j, logged>>
    /\ UNCHANGED <<pipelineVars, otherVars>>

\* the listing of the resolved group's own projects, in ListGroupProjectsAll
\* with the archived option and in ListGroupProjects without it, and the
\* building of the entries
ListGroupProjects ==
    /\ pc = "ListGroupProjects"
    /\ \E out \in ListingOutcomes :
          LET opt == IF op = "ListGroupProjectsAll" THEN ArchivedOpt(archived) ELSE Missing
              answer == ProjectsAnswer(group.ID, out[2], opt, groupPerPage)
              built == [k \in DOMAIN answer.items |-> DirectProject(answer.items[k], group)]
          IN  /\ groupCalls' = Append(groupCalls,
                    GroupCall("ListGroupProjects", <<>>, group.ID, opt, out[1], out[2],
                              Len(MatchingProjects(group.ID, out[2], opt)),
                              Len(answer.items), answer.NextPage))
              /\ IF out[1] # NoErr
                    THEN /\ ReturnGroups(<<>>, WrapGroupError("list group projects", out[1]))
                         /\ UNCHANGED allProjects
                 ELSE IF op = "ListGroupProjects"
                    THEN /\ ReturnGroups(built, NoErr)
                         /\ allProjects' = built
                 ELSE /\ allProjects' = built
                      /\ pc' = "ListDescendantGroups"
                      /\ UNCHANGED <<groupRet, toolResult>>
    /\ UNCHANGED <<tree, entry, op, request, archived, group, descendantGroups, j, logged>>
    /\ UNCHANGED <<pipelineVars, otherVars>>

\* ListGroupProjectsAll: the listing of the subgroups to walk
ListDescendantGroups ==
    /\ pc = "ListDescendantGroups"
    /\ \E err \in {NoErr, RemoteError} :
          LET answer == GroupsAnswer(DescendantsEndpoint, tree, group.ID)
          IN  /\ groupCalls' = Append(groupCalls,
                    GroupCall(DescendantsEndpoint, <<>>, group.ID, Missing, err,
                              Len(answer), Len(answer), Len(answer), 0))
              /\ IF err # NoErr
                    THEN /\ ReturnGroups(<<>>, WrapGroupError("list descendant groups", err))
                         /\ UNCHANGED <<descendantGroups, j>>
                 ELSE IF answer = <<>>
                    THEN /\ ReturnGroups(allProjects, NoErr)
                         /\ descendantGroups' = answer
                         /\ UNCHANGED j
                 ELSE /\ descendantGroups' = answer
                      /\ j' = 1
                      /\ pc' = "ListSubgroupProjects"
                      /\ UNCHANGED <<groupRet, toolResult>>
    /\ UNCHANGED <<tree, entry, op, request, archived, group, allProjects, logged>>
    /\ UNCHANGED <<pipelineVars, otherVars>>

\* ListGroupProjectsAll: one round of the loop over the subgroups: the
\* listing of the subgroup's projects, then the log line and `continue`, or
\* the building of the entries, and after the last subgroup the return
ListSubgroupProjects ==
    /\ pc = "ListSubgroupProjects"
    /\ \E out \in ListingOutcomes :
          LET subgroup == descendantGroups[j]
              opt == ArchivedOpt(archived)
              answer == ProjectsAnswer(subgroup.ID, out[2], opt, groupPerPage)
              built == [k \in DOMAIN answer.items |-> SubgroupProject(answer.items[k], subgroup)]
              all == IF out[1] # NoErr THEN allProjects ELSE allProjects \o built
          IN  /\ groupCalls' = Append(groupCalls,
                    GroupCall("ListGroupProjects", <<>>, subgroup.ID, opt, out[1], out[2],
                              Len(MatchingProjects(subgroup.ID, out[2], opt)),
                              Len(answer.items), answer.NextPage))
              /\ logged' = IF out[1] # NoErr
                              THEN Append(logged, [subgroup |-> subgroup.FullPath, err |-> out[1]])
                              ELSE logged
              /\ allProjects' = all
              /\ IF SubgroupsDone(descendantGroups, j, out[1])
                    THEN /\ ReturnGroups(all, NoErr)
                         /\ UNCHANGED j
                    ELSE /\ j' = j + 1
                         /\ UNCHANGED <<pc, groupRet, toolResult>>
    /\ UNCHANGED <<tree, entry, op, request, archived, group, descendantGroups>>
    /\ UNCHANGED <<pipelineVars, otherVars>>

\* ListGroupSubgroups: the listing of the subgroups and the building of the
\* entries
ListSubGroups ==
    /\ pc = "ListSubGroups"
    /\ \E err \in {NoErr, RemoteError} :
          LET answer == GroupsAnswer(SubgroupsEndpoint, tree, group.ID)
              built == [k \in DOMAIN answer |-> SubgroupOf(answer[k], group)]
          IN  /\ groupCalls' = Append(groupCalls,
                    GroupCall(SubgroupsEndpoint, <<>>, group.ID, Missing, err,
                              Len(answer), Len(answer), Len(answer), 0))
              /\ IF err # NoErr
                    THEN ReturnGroups(<<>>, WrapGroupError("list subgroups", err))
                    ELSE ReturnGroups(built, NoErr)
    /\ UNCHANGED <<tree, entry, op, request, archived, group, allProjects,
                   descendantGroups, j, logged>>
    /\ UNCHANGED <<pipelineVars, otherVars>>

\* the server is up and no tool is running; the remote holds some hierarchy
GroupsInit ==
    /\ tree \in Trees
    /\ now = 0
    /\ pc = "idle"
    /\ entry = "none"
    /\ op = "none"
    /\ request = NoRequest
    /\ project = <<>>
    /\ cutoff = NilTime
    /\ optsPage = 0
    /\ results = <<>>
    /\ pipelines = <<>>
    /\ i = 0
    /\ result = EmptySummary
    /\ listRet = NoListRet
    /\ deleteRet = NoDeleteRet
    /\ toolResult = NoToolResult
    /\ fetches = 0
    /\ served = 0
    /\ matched = 0
    /\ lastFetch = NoFetch
    /\ deleteCalls = <<>>
    /\ ctx = "live"
    /\ GroupsIdle
    /\ OthersIdle

GroupsNext ==
    \/ handleListAllGroupProjects
    \/ handleListDirectGroupProjects
    \/ handleListSubgroups
    \/ GetGroup
    \/ ListGroupProjects
    \/ ListDescendantGroups
    \/ ListSubgroupProjects
    \/ ListSubGroups

GroupsSpec == GroupsInit /\ [][GroupsNext]_vars

\* ------------------------------------------------------------------- run
\* one argument with a legacy single-dash flag rewritten
NormalizeArg(arg) ==
    IF arg = "-http" THEN "--http" ELSE IF arg = "-addr" THEN "--addr" ELSE arg

normalizeLegacyFlags(list) == [k \in DOMAIN list |-> NormalizeArg(list[k])]

RECURSIVE ParseFrom(_, _, _, _)
\* the flag set of the root command applied to the arguments from position
\* k on: --http sets the boolean, --addr takes the next argument as its
\* value, anything else is an error
ParseFrom(list, k, http, addr) ==
    IF k > Len(list)
        THEN [useHTTP |-> http, httpAddr |-> addr, err |-> NoErr]
    ELSE IF list[k] = "--http"
        THEN ParseFrom(list, k + 1, TRUE, addr)
    ELSE IF list[k] = "--addr"
        THEN IF k = Len(list)
                THEN [useHTTP |-> http, httpAddr |-> addr, err |-> "flag needs an argument"]
                ELSE ParseFrom(list, k + 2, http, list[k + 1])
    ELSE [useHTTP |-> http, httpAddr |-> addr, err |-> "unknown flag"]

ParseFlags(list) == ParseFrom(normalizeLegacyFlags(list), 1, FALSE, DefaultAddr)

\* a slip of run: the token is tested as it comes from the environment
TokenMissingUntrimmed(value) == value = <<>>

\* token := strings.TrimSpace(getenv("GITLAB_ACCESS_TOKEN")); token == ""
TokenMissing(value) == TrimSpace(value) = <<>>

TokenError == "GITLAB_ACCESS_TOKEN environment variable not set"

DefaultServerURL == <<"g">>

\* the outcomes of gitlabsvc.NewClient: an empty token is refused, and the
\* client library may refuse the base URL it is given
NewClientOutcomes(token, baseURL) ==
    IF TrimSpace(token) = <<>> THEN {"gitlab token cannot be empty"}
    ELSE IF TrimSpace(baseURL) = DefaultServerURL THEN {NoErr}
    ELSE {NoErr, "create gitlab client"}

ArgLists ==
    {<<>>, <<"-http">>, <<"--http">>, <<"-addr", ":9999">>,
     <<"-http", "-addr", ":9999">>, <<"--addr", ":9999", "--http">>,
     <<"-addr">>, <<"-x">>}

Environments ==
    [GITLAB_ACCESS_TOKEN : {<<>>, <<" ">>, <<"t">>, <<" ", "t", " ">>},
     GITLAB_SERVER_URL : {<<>>, <<" ">>, <<"u">>}]

\* run is called: the process has its command line and its environment
RunInit ==
    /\ args \in ArgLists
    /\ getenv \in Environments
    /\ useHTTP = FALSE
    /\ httpAddr = DefaultAddr
    /\ serverURL = <<>>
    /\ started = <<>>
    /\ runRet = NoRunRet
    /\ pc = "Execute"
    /\ now = 0
    /\ entry = "none"
    /\ op = "none"
    /\ request = NoRequest
    /\ project = <<>>
    /\ cutoff = NilTime
    /\ optsPage = 0
    /\ results = <<>>
    /\ pipelines = <<>>
    /\ i = 0
    /\ result = EmptySummary
    /\ listRet = NoListRet
    /\ deleteRet = NoDeleteRet
    /\ toolResult = NoToolResult
    /\ fetches = 0
    /\ served = 0
    /\ matched = 0
    /\ lastFetch = NoFetch
    /\ deleteCalls = <<>>
    /\ ctx = "live"
    /\ tree = <<>>
    /\ GroupsIdle
    /\ AgeIdle
    /\ ConcurrentIdle

RunReturn(err) ==
    /\ runRet' = [returned |-> TRUE, err |-> err]
    /\ pc' = "done"

\* cmd.Execute: the arguments are parsed; a parse error is returned and RunE
\* is not called
Execute ==
    /\ pc = "Execute"
    /\ LET parsed == ParseFlags(args)
       IN  /\ useHTTP' = parsed.useHTTP
           /\ httpAddr' = parsed.httpAddr
           /\ IF parsed.err # NoErr
                 THEN RunReturn(parsed.err)
                 ELSE pc' = "RunE" /\ UNCHANGED runRet
    /\ UNCHANGED <<args, getenv, serverURL, started>>
    /\ UNCHANGED <<toolVars, ageVars, concurrentVars>>

\* the head of RunE: the token and the server URL are read
RunE ==
    /\ pc = "RunE"
    /\ IF TokenMissing(getenv.GITLAB_ACCESS_TOKEN)
          THEN RunReturn(TokenError) /\ UNCHANGED serverURL
          ELSE /\ serverURL' = IF TrimSpace(getenv.GITLAB_SERVER_URL) = <<>>
                                   THEN DefaultServerURL
                                   ELSE TrimSpace(getenv.GITLAB_SERVER_URL)
               /\ pc' = "NewClient"
               /\ UNCHANGED runRet
    /\ UNCHANGED <<args, getenv, useHTTP, httpAddr, started>>
    /\ UNCHANGED <<toolVars, ageVars, concurrentVars>>

\* the client is created; on an error run returns it wrapped
NewClient ==
    /\ pc = "NewClient"
    /\ \E err \in NewClientOutcomes(TrimSpace(getenv.GITLAB_ACCESS_TOKEN), serverURL) :
          IF err # NoErr
             THEN RunReturn("failed to create GitLab client")
             ELSE pc' = "start" /\ UNCHANGED runRet
    /\ UNCHANGED <<args, getenv, useHTTP, httpAddr, serverURL, started>>
    /\ UNCHANGED <<toolVars, ageVars, concurrentVars>>

\* the service and the server are built and the starter is called; what it
\* returns is what run returns
Start ==
    /\ pc = "start"
    /\ \E err \in {NoErr, "stop"} :
          /\ started' = Append(started, [serveHTTP |-> useHTTP, httpAddr |-> httpAddr,
                                         err |-> err])
          /\ RunReturn(err)
    /\ UNCHANGED <<args, getenv, useHTTP, httpAddr, serverURL>>
    /\ UNCHANGED <<toolVars, ageVars, concurrentVars>>

RunNext ==
    \/ Execute
    \/ RunE
    \/ NewClient
    \/ Start

RunSpec == RunInit /\ [][RunNext]_vars

\* ------------------------------------------------------------ properties
IDs(seq) == [k \in DOMAIN seq |-> seq[k].ID]

PipelineIDs(seq) == [k \in DOMAIN seq |-> seq[k].PipelineID]

Occurrences(x, seq) == Cardinality({k \in DOMAIN seq : seq[k] = x})

IsPrefix(a, b) == Len(a) <= Len(b) /\ a = SubSeq(b, 1, Len(a))

\* a is b with some elements left out, the others in b's order
RECURSIVE IsSubsequence(_, _)
IsSubsequence(a, b) ==
    IF a = <<>> THEN TRUE
    ELSE IF b = <<>> THEN FALSE
    ELSE IF Head(a) = Head(b) THEN IsSubsequence(Tail(a), Tail(b))
    ELSE IsSubsequence(a, Tail(b))

\* DeleteOldPipelines has returned a summary
SummaryReturned == deleteRet.returned /\ deleteRet.hasSummary

\* DeleteOldPipelines has its candidates: ListOldPipelines returned no error
ListedForDelete ==
    op = "DeleteOldPipelines" /\ listRet.returned /\ listRet.err = NoErr

\* C1: when DeleteOldPipelines returns a summary, every candidate ID that
\* ListOldPipelines returned is in exactly one of DeletedIDs and Failed, once,
\* nothing else is in them, and their lengths add up to TotalCandidates.
C1_Partition ==
    SummaryReturned =>
        LET s == deleteRet.summary
            candidates == IDs(listRet.items)
        IN  /\ s.TotalCandidates = Len(candidates)
            /\ Len(s.DeletedIDs) + Len(s.Failed) = s.TotalCandidates
            /\ \A k \in DOMAIN candidates :
                  Occurrences(candidates[k], s.DeletedIDs)
                      + Occurrences(candidates[k], PipelineIDs(s.Failed)) = 1
            /\ \A k \in DOMAIN s.DeletedIDs :
                  \E c \in DOMAIN candidates : candidates[c] = s.DeletedIDs[k]
            /\ \A k \in DOMAIN s.Failed :
                  \E c \in DOMAIN candidates : candidates[c] = s.Failed[k].PipelineID

\* a summary with a deleted and a failed candidate has been returned
C1_Witness ==
    /\ SummaryReturned
    /\ Len(deleteRet.summary.DeletedIDs) >= 1
    /\ Len(deleteRet.summary.Failed) >= 1

\* C2: a failed delete call never ends the batch: while candidates are left
\* the loop goes on, so that every candidate after a failing one gets its
\* delete call; every failed call is in Failed under its pipeline's ID with
\* the call's error; and the operation returns a summary and a nil error.
C2_FailureDoesNotAbort ==
    ListedForDelete =>
        /\ Len(deleteCalls) < Len(listRet.items) => pc = "delete"
        /\ \A k \in DOMAIN deleteCalls :
              deleteCalls[k].err # NoErr =>
                  \E f \in DOMAIN result.Failed :
                      /\ result.Failed[f].PipelineID = deleteCalls[k].PipelineID
                      /\ result.Failed[f].Error = deleteCalls[k].err
        /\ pc = "done" =>
              /\ Len(deleteCalls) = Len(listRet.items)
              /\ SummaryReturned
              /\ deleteRet.err = NoErr
              /\ deleteRet.summary = result

\* the batch has ended after a failed delete call that was not the last call
C2_Witness ==
    /\ ListedForDelete
    /\ pc = "done"
    /\ \E k \in DOMAIN deleteCalls :
          k < Len(deleteCalls) /\ deleteCalls[k].err # NoErr

\* C3: every pipeline ID passed to the remote delete operation is the ID of a
\* pipeline whose creation time is present and strictly before the cutoff.
C3_DeletesOnlyOld ==
    \A k \in DOMAIN deleteCalls :
        \E c \in DOMAIN pipelines :
            /\ pipelines[c].ID = deleteCalls[k].PipelineID
            /\ pipelines[c].CreatedAt.present
            /\ Before(pipelines[c].CreatedAt, cutoff)

\* C4: the delete_old_pipelines tool makes no remote call, listing or delete,
\* unless confirm is true; DeleteOldPipelines itself has no such check: called
\* directly, with no confirm flag anywhere, it always goes to the remote.
C4_ConfirmGate ==
    /\ (entry = "tool" /\ request.name = "delete_old_pipelines"
            /\ ~GetBool(request.confirm, FALSE)) =>
          (fetches = 0 /\ deleteCalls = <<>> /\ pc \in {"idle", "done"})
    /\ (entry = "service" /\ op = "DeleteOldPipelines") =>
          (pc = "list" \/ fetches >= 1)

\* the tool was called with valid arguments and confirm = false, and returned
C4_Witness ==
    /\ entry = "tool"
    /\ request.name = "delete_old_pipelines"
    /\ request.confirm = Given(FALSE)
    /\ request.project = Given(<<" ", "p">>)
    /\ request.years = Given(1)
    /\ toolResult.returned
    /\ toolResult.text = "Deletion not performed: set confirm=true"

\* pipelines of the latest page with a creation time at or after the cutoff
LateItems ==
    {k \in DOMAIN lastFetch.resp.items :
        /\ ~lastFetch.resp.items[k].isNil
        /\ lastFetch.resp.items[k].CreatedAt.present
        /\ ~Before(lastFetch.resp.items[k].CreatedAt, cutoff)}

\* C5: whatever the remote returns, a pipeline with a creation time is in the
\* result only if that time is strictly before the cutoff: one created at the
\* cutoff or later is never in the result.
C5_Revalidated ==
    /\ \A k \in DOMAIN results :
          results[k].CreatedAt.present => results[k].CreatedAt.inst < cutoff.inst
    /\ \A k \in LateItems :
          \A r \in DOMAIN results : results[r].ID # lastFetch.resp.items[k].ID
    /\ listRet.returned => IsSubsequence(listRet.items, results)

\* the remote, ignoring created_before, returned a pipeline created exactly at
\* the cutoff next to one created before it, and ListOldPipelines returned
C5_Witness ==
    /\ listRet.returned
    /\ Len(listRet.items) >= 1
    /\ \E k \in LateItems : lastFetch.resp.items[k].CreatedAt.inst = cutoff.inst
    /\ lastFetch.CreatedBefore = cutoff

\* C6: a pipeline the remote returns without a creation time is not in the
\* result of ListOldPipelines, and it causes no error.
C6_NoTimestampExcluded ==
    /\ \A k \in DOMAIN results : results[k].CreatedAt.present
    /\ (listRet.returned /\ lastFetch.resp.err = NoErr) => listRet.err = NoErr

\* C7: a pipeline whose creation time is in the future is not in the result
\* of ListOldPipelines, whatever the cutoff.
C7_FutureExcluded ==
    \A k \in DOMAIN results :
        results[k].CreatedAt.present => results[k].CreatedAt.inst <= now

AllSummaries == results \o listRet.items \o pipelines

\* C8: every PipelineSummary has AgeDays >= 0 and AgeYears >= 0 when its
\* creation time is present and not in the future, and otherwise both at the
\* sentinel -1; never exactly one of the two is the sentinel.
C8_AgeInvariant ==
    \A k \in DOMAIN AllSummaries :
        LET s == AllSummaries[k]
            aged == s.CreatedAt.present /\ s.CreatedAt.inst <= now
        IN  /\ aged => (s.AgeDays >= 0 /\ s.AgeYears >= 0)
            /\ ~aged => <<s.AgeDays, s.AgeYears>> = SentinelAge
            /\ (s.AgeDays = SentinelAge[1]) <=> (s.AgeYears = SentinelAge[2])

\* ListOldPipelines returned a summary of positive age next to one without a
\* creation time
C8_Witness ==
    /\ \E k \in DOMAIN results : results[k].AgeDays > 0 /\ results[k].AgeYears > 0
    /\ \E k \in DOMAIN results : ~results[k].CreatedAt.present
    /\ listRet.returned

\* C9: when ListOldPipelines yields no candidate, DeleteOldPipelines returns
\* TotalCandidates = 0, empty DeletedIDs and Failed and a nil error, and no
\* delete call is made.
C9_NoCandidates ==
    (ListedForDelete /\ listRet.items = <<>>) =>
        /\ pc = "done"
        /\ SummaryReturned
        /\ deleteRet.summary.TotalCandidates = 0
        /\ deleteRet.summary.DeletedIDs = <<>>
        /\ deleteRet.summary.Failed = <<>>
        /\ deleteRet.err = NoErr
        /\ deleteCalls = <<>>

\* the listing fetched rows, kept none of them, and DeleteOldPipelines returned
C9_Witness ==
    /\ ListedForDelete
    /\ listRet.items = <<>>
    /\ served >= 1
    /\ deleteRet.returned

\* C10: the delete calls are made one per candidate in the order
\* ListOldPipelines returned the candidates: at any time the IDs passed to the
\* remote are the first candidates' IDs, at the end all of them; DeletedIDs
\* and the IDs of Failed are subsequences of the candidate IDs.
C10_CandidateOrder ==
    ListedForDelete =>
        LET candidates == IDs(listRet.items)
            calls == PipelineIDs(deleteCalls)
        IN  /\ IsPrefix(calls, candidates)
            /\ pc = "done" => calls = candidates
            /\ IsSubsequence(result.DeletedIDs, candidates)
            /\ IsSubsequence(PipelineIDs(result.Failed), candidates)
            /\ Len(result.DeletedIDs) + Len(result.Failed) = Len(calls)

\* after two page fetches two candidates have been deleted, one after the other
C10_Witness ==
    /\ ListedForDelete
    /\ pc = "done"
    /\ fetches >= 2
    /\ Len(result.DeletedIDs) >= 2

\* the latest page fetch was answered without an error
FetchedPage == fetches > 0 /\ lastFetch.resp.err = NoErr

\* C11: after a page fetch that succeeded the page loop of ListOldPipelines
\* goes on exactly when the response has metadata with a next page, whatever
\* the number of entries of the page: with no metadata or no next page the
\* loop is over after that page, with a next page the loop asks for that page
\* next, even when the page had no entry.
C11_StopsOnNoNextPage ==
    FetchedPage =>
        /\ pc = "list" <=> (lastFetch.resp.hasResp /\ lastFetch.resp.NextPage # 0)
        /\ pc = "list" => optsPage = lastFetch.resp.NextPage

\* a page without entries that names a next page: the loop is still running
C11_Witness ==
    /\ FetchedPage
    /\ lastFetch.resp.items = <<>>
    /\ lastFetch.resp.NextPage # 0
    /\ pc = "list"

\* a page with entries and no next page: ListOldPipelines has returned
C11_WitnessStop ==
    /\ FetchedPage
    /\ Len(lastFetch.resp.items) >= 2
    /\ lastFetch.resp.hasResp
    /\ lastFetch.resp.NextPage = 0
    /\ listRet.returned

\* C12: when every page was fetched without an error and every row handed out
\* is a pipeline created before the cutoff, ListOldPipelines returns one entry
\* per row, in the order the rows were handed out: the length is the sum of
\* the page lengths, the order is page by page and within a page the page's.
C12_PagesConcatenated ==
    (listRet.returned /\ listRet.err = NoErr /\ matched = served) =>
        /\ Len(listRet.items) = served
        /\ IDs(listRet.items) = [k \in 1..served |-> RowID(0, k)]

\* two pages of one row each, both rows kept
C12_Witness ==
    /\ listRet.returned
    /\ listRet.err = NoErr
    /\ matched = served
    /\ fetches >= 2
    /\ lastFetch.resp.items # <<>>
    /\ Len(listRet.items) >= 2

\* C14: when a page fetch fails, on whichever page, ListOldPipelines is over
\* at once: it returns the wrapped error and no entry, the entries of the
\* earlier pages are dropped, and no page is fetched after the failing one.
C14_FetchErrorDiscards ==
    (fetches > 0 /\ lastFetch.resp.err # NoErr) =>
        /\ pc = "done"
        /\ listRet.returned
        /\ listRet.err = WrapListError(lastFetch.resp.err)
        /\ listRet.err # NoErr
        /\ listRet.items = <<>>
        /\ deleteCalls = <<>>

\* the second fetch failed after the first page had given an entry
C14_Witness ==
    /\ fetches >= 2
    /\ lastFetch.resp.err # NoErr
    /\ lastFetch.Page >= 2
    /\ results # <<>>
    /\ listRet.returned

\* ------------------------------------- properties of the group operations
\* ListGroupProjectsAll has returned a list and no error
ReturnedAll == op = "ListGroupProjectsAll" /\ groupRet.returned /\ groupRet.err = NoErr

\* the project listing calls the remote received, the resolved group's first
ProjectListings ==
    LET listing(c) == c.call = "ListGroupProjects"
    IN  SelectSeq(groupCalls, listing)

\* the project listing calls for subgroups
SubgroupListings == IF ProjectListings = <<>> THEN <<>> ELSE Tail(ProjectListings)

GroupIDs(calls) == [k \in DOMAIN calls |-> calls[k].gid]

\* the subgroups at every depth below the root, by the hierarchy itself
AllDescendants == DOMAIN tree

\* the immediate children of the root, by the hierarchy itself
ImmediateChildren == {k \in DOMAIN tree : tree[k] = RootID}

\* the projects, on all pages, that the successful listings selected
RECURSIVE SelectedProjects(_)
SelectedProjects(calls) ==
    IF calls = <<>> THEN 0
    ELSE (IF Head(calls).err = NoErr THEN Head(calls).matching ELSE 0)
            + SelectedProjects(Tail(calls))

\* C13: ListGroupProjectsAll returns the projects of every page of its
\* listings: the result has as many entries as the successful listings
\* select on all their pages together.
C13_EveryPageReturned ==
    ReturnedAll => Len(groupRet.items) = SelectedProjects(ProjectListings)

\* what a successful listing stands for: the first page the remote answered
\* with (whole = FALSE), or all the projects the listing selects (whole = TRUE)
Listed(c, whole) ==
    IF whole THEN MatchingProjects(c.gid, c.total, c.Archived)
    ELSE ProjectsAnswer(c.gid, c.total, c.Archived, c.PerPage).items

\* the IDs of the projects of the successful listings, call after call
RECURSIVE ListedIDs(_, _)
ListedIDs(calls, whole) ==
    IF calls = <<>> THEN <<>>
    ELSE (IF Head(calls).err = NoErr THEN IDs(Listed(Head(calls), whole)) ELSE <<>>)
            \o ListedIDs(Tail(calls), whole)

\* the walk got as far as its loop: the group was resolved, its own
\* projects and its subgroups were listed
WalkedSubgroups ==
    /\ op = "ListGroupProjectsAll"
    /\ pc = "done"
    /\ Len(groupCalls) >= 3
    /\ \A k \in 1..3 : groupCalls[k].err = NoErr

\* a failed subgroup listing does not end the walk: no error is returned,
\* every subgroup's projects are asked for in the order of the subgroups,
\* and the result is what the listing of the group itself answered followed
\* by what the successful subgroup listings answered
WalkSkipsFailures ==
    WalkedSubgroups =>
        /\ groupRet.returned
        /\ groupRet.err = NoErr
        /\ GroupIDs(SubgroupListings) = IDs(DescendantsOf(tree, RootID))
        /\ IDs(groupRet.items) = ListedIDs(ProjectListings, FALSE)

\* C15: when project listings of subgroups fail, whichever they are,
\* ListGroupProjectsAll returns no error: every subgroup's projects are
\* asked for, and the result is the projects of the group itself followed
\* by the projects of every subgroup whose listing succeeded, in the order
\* of the subgroups.
C15_SkipsFailedSubgroup ==
    (WalkedSubgroups /\ logged # <<>>) =>
        /\ groupRet.returned
        /\ groupRet.err = NoErr
        /\ GroupIDs(SubgroupListings) = IDs(DescendantsOf(tree, RootID))
        /\ IDs(groupRet.items) = ListedIDs(ProjectListings, TRUE)

\* of three subgroups the second failed, the first and the third are in the
\* result
SkippedMiddle ==
    /\ ReturnedAll
    /\ Len(SubgroupListings) = 3
    /\ SubgroupListings[1].err = NoErr
    /\ SubgroupListings[2].err # NoErr
    /\ SubgroupListings[3].err = NoErr
    /\ \E k \in DOMAIN groupRet.items : groupRet.items[k].ID[1] = SubgroupListings[3].gid

\* every subgroup listing failed, the result is the group's own projects
SkippedAll ==
    /\ ReturnedAll
    /\ Len(SubgroupListings) >= 2
    /\ \A k \in DOMAIN SubgroupListings : SubgroupListings[k].err # NoErr
    /\ groupRet.items # <<>>

\* the group paths that the text of a tool result names: the identifier of
\* the request and the full paths within the serialized entries
Mentioned(res) ==
    {res.group} \cup {res.json[k].SubgroupFullPath : k \in DOMAIN res.json}

\* C16: when ListGroupProjectsAll skipped subgroups, the result of
\* list_all_group_projects identifies each of them.
C16_SkipsReported ==
    (ReturnedAll /\ toolResult.returned) =>
        \A k \in DOMAIN logged : logged[k].subgroup \in Mentioned(toolResult)

\* C17: when the group cannot be resolved, each of the three group
\* operations returns the wrapped error and no entry, and GetGroup stays the
\* only remote call.
C17_RootFailureAborts ==
    (groupCalls # <<>> /\ groupCalls[1].err # NoErr) =>
        /\ Len(groupCalls) = 1
        /\ groupCalls[1].call = "GetGroup"
        /\ pc = "done"
        /\ groupRet.returned
        /\ groupRet.err = "get group"
        /\ groupRet.items = <<>>
        /\ allProjects = <<>>

\* GetGroup failed in ListGroupProjectsAll
C17_Witness ==
    /\ op = "ListGroupProjectsAll"
    /\ groupCalls # <<>>
    /\ groupCalls[1].err # NoErr
    /\ groupRet.returned

\* GetGroup failed in ListGroupProjects and in ListGroupSubgroups
C17_WitnessOthers ==
    /\ op \in {"ListGroupProjects", "ListGroupSubgroups"}
    /\ groupCalls # <<>>
    /\ groupCalls[1].err # NoErr
    /\ groupRet.returned

\* the entries the merge is to give for the listings: the resolved group's
\* projects unmarked, a subgroup's marked with its full path
RECURSIVE Merged(_, _, _)
Merged(calls, t, whole) ==
    IF calls = <<>> THEN <<>>
    ELSE LET c == Head(calls)
             projects == Listed(c, whole)
             sub == c.gid # RootID
         IN  [k \in DOMAIN projects |->
                [ID |-> projects[k].ID, IsSubgroupProject |-> sub,
                 SubgroupFullPath |-> IF sub THEN FullPath(t, c.gid) ELSE <<>>]]
                \o Merged(Tail(calls), t, whole)

\* the ID, the mark and the subgroup path of the returned entries
Marks(items) ==
    [k \in DOMAIN items |->
        [ID |-> items[k].ID, IsSubgroupProject |-> items[k].IsSubgroupProject,
         SubgroupFullPath |-> items[k].SubgroupFullPath]]

AllSucceeded == ReturnedAll /\ \A k \in DOMAIN groupCalls : groupCalls[k].err = NoErr

\* the merge of what the listings answered: the group's own entries first,
\* unmarked, then each subgroup's in the order of the subgroups, marked and
\* with the subgroup's full path, no entry twice
MergeOfAnswers ==
    AllSucceeded =>
        /\ GroupIDs(ProjectListings) = <<RootID>> \o IDs(DescendantsOf(tree, RootID))
        /\ Marks(groupRet.items) = Merged(ProjectListings, tree, FALSE)
        /\ Cardinality({groupRet.items[k].ID : k \in DOMAIN groupRet.items})
              = Len(groupRet.items)

\* C18: when every call succeeded, the result of ListGroupProjectsAll is the
\* projects of the group itself, unmarked and without a subgroup path,
\* followed subgroup by subgroup, in the order the subgroups were listed, by
\* each subgroup's projects, marked and with that subgroup's full path; no
\* project is left out or entered twice: the length is the number of the
\* group's projects plus the sum of the numbers of the subgroups' projects.
C18_MergeOrder ==
    AllSucceeded =>
        /\ GroupIDs(ProjectListings) = <<RootID>> \o IDs(DescendantsOf(tree, RootID))
        /\ Marks(groupRet.items) = Merged(ProjectListings, tree, TRUE)
        /\ Len(groupRet.items) = SelectedProjects(ProjectListings)
        /\ Cardinality({groupRet.items[k].ID : k \in DOMAIN groupRet.items})
              = Len(groupRet.items)

\* FewProjects projects of the group and of each of two subgroups, one of
\* them nested in the other
MergedThree ==
    /\ AllSucceeded
    /\ \A k \in DOMAIN groupCalls : groupCalls[k].NextPage = 0
    /\ Len(SubgroupListings) = 2
    /\ Len(groupRet.items) = 3 * FewProjects
    /\ Len(groupRet.items[Len(groupRet.items)].SubgroupFullPath) = 3

C19_WitnessBoth ==
    /\ ReturnedAll
    /\ ~archived
    /\ Len(SubgroupListings) >= 1
    /\ \E k \in DOMAIN groupRet.items : groupRet.items[k].ID[2] % 2 = 0
    /\ \E k \in DOMAIN groupRet.items : groupRet.items[k].ID[2] % 2 = 1

C20_WitnessWalk ==
    /\ ReturnedAll
    /\ \E g \in AllDescendants : tree[g] # RootID

\* ------------------------------------------------- properties of the handlers
\* C21: a group tool called with the empty string as group_id_or_path
\* rejects the request without issuing any remote call.
C21_EmptyIdentifierRejected ==
    (entry = "tool" /\ request.group = Given(EmptyIdentifier)) => groupCalls = <<>>

\* C22: list_old_pipelines and delete_old_pipelines reject an older_than_years
\* of zero or less before any remote call, whatever the confirm flag: no page
\* is fetched and no delete call is issued.
C22_YearsRejected ==
    (entry = "tool" /\ request.years # Missing /\ request.years[1] <= 0) =>
        /\ pc = "done"
        /\ toolResult.returned
        /\ op = "none"
        /\ fetches = 0
        /\ deleteCalls = <<>>

\* delete_old_pipelines with confirm = true and older_than_years = 0 on a
\* usable project is rejected for the age
C22_Witness ==
    /\ entry = "tool"
    /\ request.name = "delete_old_pipelines"
    /\ request.project = Given(<<" ", "p">>)
    /\ request.years = Given(0)
    /\ request.confirm = Given(TRUE)
    /\ toolResult.text = "older_than_years must be greater than zero"
    /\ fetches = 0

\* list_old_pipelines with a negative age is rejected in the same way
C22_WitnessNegative ==
    /\ entry = "tool"
    /\ request.name = "list_old_pipelines"
    /\ request.project = Given(<<" ", "p">>)
    /\ request.years = Given(-1)
    /\ request.confirm = Missing
    /\ toolResult.text = "older_than_years must be greater than zero"
    /\ fetches = 0

\* C23: no remote call is retried within one invocation: after a page fetch
\* that failed the operation is over, so the page is not asked for again, and
\* no pipeline receives more than one delete call, failed or not.
C23_NoRetry ==
    /\ (fetches > 0 /\ lastFetch.resp.err # NoErr) => pc = "done"
    /\ \A k, l \in DOMAIN deleteCalls :
          deleteCalls[k].PipelineID = deleteCalls[l].PipelineID => k = l
    /\ Len(deleteCalls) <= Len(pipelines)

\* a delete call failed, the loop went on and the operation returned with
\* one call per candidate
C23_Witness ==
    /\ SummaryReturned
    /\ Len(deleteCalls) = 2
    /\ deleteCalls[1].err = DeleteError
    /\ deleteCalls[2].PipelineID # deleteCalls[1].PipelineID

\* the fetch of the second page failed and the operation returned
C23_WitnessFetch ==
    /\ fetches = 2
    /\ lastFetch.resp.err = ListError
    /\ pc = "done"

\* -------------------------------------------------- concurrent invocations
\* a slip of the service: the accumulators are fields of the Service, which
\* the invocations share
FrameOfService(p) == 1

\* the frame that holds the accumulators of invocation p (results, *result):
\* they are local variables of the call, so its own
Frame(p) == p

\* the remote's pages for one invocation after `n` rows: rows old enough for
\* every cutoff, and nil entries
OldPages(n) ==
    UNION {{[k \in 1..len |->
                IF c[k] THEN [isNil |-> FALSE, ID |-> RowID(n, k), CreatedAt |-> Time(0, "Local")]
                ELSE NilPipeline] :
             c \in [1..len -> BOOLEAN]} :
           len \in 0..(MaxOldRows - n)}

ConcurrentResponses(n, page, mustEnd) ==
    {[err |-> ListError, items |-> <<>>, hasResp |-> FALSE, NextPage |-> 0]}
        \cup {[err |-> NoErr, items |-> p, hasResp |-> c[1], NextPage |-> c[2]] :
                 p \in OldPages(n), c \in Cursors(page, mustEnd)}

\* the service is up, the clock is read once and no invocation is running
ConcurrentInit ==
    /\ ConcurrentIdle
    /\ now = TimeStep * MaxTick
    /\ pc = "idle"
    /\ entry = "none"
    /\ op = "none"
    /\ request = NoRequest
    /\ project = <<>>
    /\ cutoff = NilTime
    /\ optsPage = 0
    /\ results = <<>>
    /\ pipelines = <<>>
    /\ i = 0
    /\ result = EmptySummary
    /\ listRet = NoListRet
    /\ deleteRet = NoDeleteRet
    /\ toolResult = NoToolResult
    /\ fetches = 0
    /\ served = 0
    /\ matched = 0
    /\ lastFetch = NoFetch
    /\ deleteCalls = <<>>
    /\ ctx = "live"
    /\ tree = <<>>
    /\ GroupsIdle
    /\ RunIdle
    /\ AgeIdle

\* invocation p enters ListOldPipelines, directly or as the first statement
\* of DeleteOldPipelines
Invoke(p) ==
    /\ frames[p].pc = "idle"
    /\ \E name \in {"ListOldPipelines", "DeleteOldPipelines"},
          before \in {Time(0, "Local"), Time(TimeStep * MaxTick, "Local")} :
          frames' = [[frames EXCEPT ![Frame(p)].results = <<>>]
                        EXCEPT ![p].op = name, ![p].pc = "list",
                               ![p].cutoff = UTC(before), ![p].optsPage = 1]
    /\ UNCHANGED <<answered, pc, toolVars, runVars, ageVars>>

\* one round of the page loop of invocation p
FetchPage(p) ==
    /\ frames[p].pc = "list"
    /\ Len(answered[p].requested) < MaxFetches
    /\ \E resp \in ConcurrentResponses(Len(answered[p].rows), frames[p].optsPage,
                                        Len(answered[p].requested) + 1 = MaxFetches) :
          LET f == frames[p]
              failed == resp.err # NoErr
              acc == IF failed THEN frames[Frame(p)].results
                     ELSE AppendPage(frames[Frame(p)].results, resp.items, f.cutoff, now)
              returns == failed \/ LastPage(resp)
              lret == ListReturn(resp, acc, WrapListError(resp.err))
              dret == ReturnAfterList(lret)
              kept == [frames EXCEPT ![Frame(p)].results = acc]
          IN  /\ answered' = [answered EXCEPT
                                 ![p].rows = @ \o resp.items,
                                 ![p].requested = Append(@, f.optsPage),
                                 ![p].reported = Append(@, resp.NextPage),
                                 ![p].err = resp.err]
              /\ frames' =
                    IF ~returns
                       THEN [kept EXCEPT ![p].optsPage = NextCursor(f.optsPage, resp)]
                    ELSE IF f.op = "ListOldPipelines"
                       THEN [kept EXCEPT ![p].pc = "done",
                                         ![p].ret = [returned |-> TRUE, items |-> lret.items,
                                                     hasSummary |-> FALSE,
                                                     summary |-> EmptySummary,
                                                     err |-> lret.err]]
                    ELSE IF failed \/ Len(acc) = 0
                       THEN [kept EXCEPT ![p].pc = "done",
                                         ![p].pipelines = lret.items,
                                         ![p].ret = [returned |-> TRUE, items |-> lret.items,
                                                     hasSummary |-> dret.hasSummary,
                                                     summary |-> dret.summary,
                                                     err |-> dret.err]]
                    ELSE [[kept EXCEPT ![Frame(p)].result = NewSummary(acc)]
                             EXCEPT ![p].pc = "delete", ![p].pipelines = acc, ![p].i = 1]
    /\ UNCHANGED <<pc, toolVars, runVars, ageVars>>

\* one round of the deletion loop of invocation p
DeleteCandidate(p) ==
    /\ frames[p].pc = "delete"
    /\ \E err \in {NoErr, DeleteError} :
          LET f == frames[p]
              id == Candidate(f.pipelines, f.i).ID
              summary == Record(frames[Frame(p)].result, id, err)
              kept == [frames EXCEPT ![Frame(p)].result = summary]
          IN  /\ answered' = [answered EXCEPT ![p].outcomes = Append(@, err)]
              /\ frames' =
                    IF ~RangeDone(f.pipelines, f.i, err)
                       THEN [kept EXCEPT ![p].i = NextCandidate(f.i, err)]
                       ELSE [kept EXCEPT ![p].pc = "done",
                                         ![p].ret = [returned |-> TRUE, items |-> f.pipelines,
                                                     hasSummary |-> TRUE,
                                                     summary |-> summary, err |-> NoErr]]
    /\ UNCHANGED <<pc, toolVars, runVars, ageVars>>

ConcurrentNext ==
    \E p \in Invocations :
       \/ Invoke(p)
       \/ FetchPage(p)
       \/ DeleteCandidate(p)

ConcurrentSpec == ConcurrentInit /\ [][ConcurrentNext]_vars

\* ------------------------------------------------------- pipelineAge sampled
\* pipelineAge is about to be called for two creation times that lie whole
\* numbers of hours before the reading of the clock
AgeInit ==
    /\ hoursAgo \in (0..MaxHoursAgo) \X (0..MaxHoursAgo)
    /\ ages = <<>>
    /\ now = MaxHoursAgo
    /\ pc = "pipelineAge"
    /\ entry = "none"
    /\ op = "none"
    /\ request = NoRequest
    /\ project = <<>>
    /\ cutoff = NilTime
    /\ optsPage = 0
    /\ results = <<>>
    /\ pipelines = <<>>
    /\ i = 0
    /\ result = EmptySummary
    /\ listRet = NoListRet
    /\ deleteRet = NoDeleteRet
    /\ toolResult = NoToolResult
    /\ fetches = 0
    /\ served = 0
    /\ matched = 0
    /\ lastFetch = NoFetch
    /\ deleteCalls = <<>>
    /\ ctx = "live"
    /\ tree = <<>>
    /\ GroupsIdle
    /\ RunIdle
    /\ ConcurrentIdle

\* the two calls of pipelineAge
CallPipelineAge ==
    /\ pc = "pipelineAge"
    /\ ages' = [k \in DOMAIN hoursAgo |-> pipelineAge(Time(now - hoursAgo[k], "UTC"), now)]
    /\ pc' = "done"
    /\ UNCHANGED <<hoursAgo, toolVars, runVars, concurrentVars>>

AgeNext == CallPipelineAge

AgeSpec == AgeInit /\ [][AgeNext]_vars

\* ------------------------------------------------------- properties of run
TokenGiven ==
    \E k \in DOMAIN getenv.GITLAB_ACCESS_TOKEN : getenv.GITLAB_ACCESS_TOKEN[k] # " "

\* the flag values the command line asks for
WantsHTTP == \E k \in DOMAIN args : args[k] \in {"-http", "--http"}

WantedAddr ==
    IF \E k \in 1..(Len(args) - 1) : args[k] \in {"-addr", "--addr"}
        THEN args[(CHOOSE k \in 1..(Len(args) - 1) : args[k] \in {"-addr", "--addr"}) + 1]
        ELSE DefaultAddr

C24_WitnessBlank ==
    /\ runRet.returned
    /\ args = <<>>
    /\ getenv.GITLAB_ACCESS_TOKEN = <<" ">>
    /\ runRet.err = TokenError
    /\ started = <<>>

\* run with a token and a server URL the client refuses never started
C24_WitnessClient ==
    /\ runRet.returned
    /\ ParseFlags(args).err = NoErr
    /\ TokenGiven
    /\ started = <<>>

\* the latest page fetch succeeded and reported no further page
ListingComplete ==
    /\ fetches > 0
    /\ lastFetch.resp.err = NoErr
    /\ (~lastFetch.resp.hasResp \/ lastFetch.resp.NextPage = 0)

\* a step that issues a page fetch, a step that issues a delete call
FetchStep == fetches' = fetches + 1

DeleteStep == Len(deleteCalls') = Len(deleteCalls) + 1

C25_Sequenced ==
    /\ pc = "list" => deleteCalls = <<>>
    /\ deleteCalls # <<>> =>
          /\ op = "DeleteOldPipelines"
          /\ ListingComplete
          /\ listRet.returned
          /\ listRet.err = NoErr
    /\ (op = "DeleteOldPipelines" /\ fetches > 0 /\ lastFetch.resp.err # NoErr) =>
          /\ deleteCalls = <<>>
          /\ pc = "done"
          /\ deleteRet.returned
          /\ ~deleteRet.hasSummary
          /\ deleteRet.err = listRet.err
          /\ deleteRet.err # NoErr

C25_Steps ==
    /\ fetches' \in {fetches, fetches + 1}
    /\ deleteCalls' = deleteCalls \/ DeleteStep
    /\ ~(FetchStep /\ DeleteStep)
    /\ FetchStep => deleteCalls = <<>>
    /\ DeleteStep => (ListingComplete /\ fetches' = fetches)

\* C25: within one DeleteOldPipelines invocation the remote calls are issued
\* one at a time and every page fetch precedes the first delete call: a
\* delete is issued only once the listing has fetched its last page
\* successfully, no page is fetched after a delete call, and when a page
\* fetch fails no delete call is issued and the operation returns that
\* error without a summary.
C25_FetchesBeforeDeletes == []C25_Sequenced /\ [][C25_Steps]_vars

\* two pages were fetched, then two delete calls were issued
C25_Witness ==
    /\ op = "DeleteOldPipelines"
    /\ fetches = 2
    /\ Len(deleteCalls) = 2
    /\ pc = "done"

\* the second page fetch of DeleteOldPipelines failed after the first page
\* had held a candidate
C25_WitnessFailed ==
    /\ op = "DeleteOldPipelines"
    /\ fetches = 2
    /\ lastFetch.resp.err # NoErr
    /\ results # <<>>
    /\ deleteRet.returned

\* --------------------------------------------- properties under cancellation
\* the delete calls that failed for the cancelled context
CanceledCalls == {k \in DOMAIN deleteCalls : deleteCalls[k].err = Canceled}

\* the context was cancelled while the deletion loop was running
CanceledInLoop ==
    /\ ctx = "canceled"
    /\ listRet.returned
    /\ listRet.err = NoErr
    /\ pipelines # <<>>

\* C26: when the context is cancelled during the deletion loop of
\* DeleteOldPipelines the loop still visits every remaining candidate, each
\* delete call that fails for the cancellation is recorded in Failed, and
\* the summary returned satisfies
\* len(DeletedIDs) + len(Failed) = TotalCandidates.
C26_CancelNotTruncated ==
    CanceledInLoop =>
        /\ pc \in {"delete", "done"}
        /\ \A k \in CanceledCalls :
              \E f \in DOMAIN result.Failed :
                 /\ result.Failed[f].PipelineID = deleteCalls[k].PipelineID
                 /\ result.Failed[f].Error = Canceled
        /\ pc = "done" =>
              /\ SummaryReturned
              /\ PipelineIDs(deleteCalls) = IDs(pipelines)
              /\ deleteRet.summary.TotalCandidates = Len(pipelines)
              /\ Len(deleteRet.summary.DeletedIDs) + Len(deleteRet.summary.Failed)
                    = deleteRet.summary.TotalCandidates

\* the context was cancelled after the first of two candidates was deleted;
\* the second call failed for it and is in Failed
C26_Witness ==
    /\ CanceledInLoop
    /\ pc = "done"
    /\ Len(deleteCalls) = 2
    /\ deleteCalls[1].err = NoErr
    /\ deleteCalls[2].err = Canceled
    /\ Len(deleteRet.summary.Failed) = 1
    /\ Len(deleteRet.summary.DeletedIDs) = 1

\* ------------------------------------------- properties of the page requests
\* the parameters of a page request other than the page number
FixedParameters(fetch) ==
    <<fetch.project, fetch.PerPage, fetch.CreatedBefore, fetch.OrderBy, fetch.Sort>>

C28_Request ==
    FetchStep =>
        /\ FixedParameters(lastFetch') =
              <<project, pipelinePageSize, cutoff, "created_at", "asc">>
        /\ cutoff.present /\ cutoff.loc = "UTC"
        /\ fetches = 0 => lastFetch'.Page = 1
        /\ fetches > 0 =>
              /\ lastFetch'.Page = lastFetch.resp.NextPage
              /\ FixedParameters(lastFetch') = FixedParameters(lastFetch)

\* C28: ListOldPipelines requests page 1 first and after that exactly the
\* next-page number the previous response reported; every request carries
\* page size 100, created_before equal to the cutoff in UTC, order_by
\* created_at and sort ascending, so that only the page number changes from
\* one request to the next.
C28_OnlyPageChanges == [][C28_Request]_vars

\* the first response reported page 3 as the next page and page 3 was
\* requested second, for a cutoff the caller gave in local time
C28_Witness ==
    /\ entry = "service"
    /\ fetches = 2
    /\ lastFetch.Page = 3
    /\ lastFetch.PerPage = pipelinePageSize
    /\ lastFetch.CreatedBefore = cutoff

\* ------------------------------------------------ properties of termination
\* C29: when the remote reports an error or no next page after finitely many
\* page fetches, ListOldPipelines returns, and so does DeleteOldPipelines.
C29_Terminates ==
    /\ (pc = "list") ~> listRet.returned
    /\ (op = "DeleteOldPipelines" /\ pc = "list") ~> deleteRet.returned

\* the loop went on for as long as the remote reported a next page and
\* returned when it no longer did
C29_Witness ==
    /\ fetches = MaxFetches
    /\ lastFetch.Page > 1
    /\ lastFetch.resp.err = NoErr
    /\ listRet.returned
    /\ pc = "done"

\* ------------------------------------------------ properties of pipelineAge
AgeDays(k) == ages[k][1]

\* C30: for a creation time a whole number h >= 0 of hours in the past,
\* pipelineAge returns AgeDays = h div 24, the floor of hours / 24: a
\* pipeline created exactly d whole days ago has AgeDays >= d, and AgeDays
\* does not decrease as the age grows.
C30_AgeDaysFloor ==
    ages # <<>> =>
        /\ \A k \in DOMAIN hoursAgo :
              /\ AgeDays(k) * HoursPerDay <= hoursAgo[k]
              /\ hoursAgo[k] < (AgeDays(k) + 1) * HoursPerDay
              /\ \A d \in 0..MaxHoursAgo : hoursAgo[k] = d * HoursPerDay => AgeDays(k) >= d
        /\ hoursAgo[1] <= hoursAgo[2] => AgeDays(1) <= AgeDays(2)

\* a pipeline created 47 hours ago is 1 day old, one created exactly two
\* days ago is 2 days old
C30_Witness ==
    /\ ages # <<>>
    /\ hoursAgo = <<47, 2 * HoursPerDay>>
    /\ AgeDays(1) = 1
    /\ AgeDays(2) = 2

\* ------------------------------------- properties of concurrent invocations
\* what ListOldPipelines, run alone, builds from the rows the remote handed
\* to invocation p
AloneResults(p) == AppendPage(<<>>, answered[p].rows, frames[p].cutoff, now)

RECURSIVE RecordAll(_, _, _)
\* what the deletion loop, run alone, records for the outcomes the remote
\* gave to the delete calls
RecordAll(summary, candidates, outcomes) ==
    IF outcomes = <<>> THEN summary
    ELSE RecordAll(Record(summary, Head(candidates).ID, Head(outcomes)),
                   Tail(candidates), Tail(outcomes))

AloneSummary(p) ==
    RecordAll(NewSummary(AloneResults(p)), AloneResults(p), answered[p].outcomes)

\* the page numbers invocation p asked for follow its own responses
OwnCursor(p) ==
    LET a == answered[p]
    IN  /\ a.requested # <<>> => a.requested[1] = 1
        /\ \A k \in 2..Len(a.requested) : a.requested[k] = a.reported[k - 1]
        /\ frames[p].pc = "list" =>
              frames[p].optsPage = IF a.requested = <<>> THEN 1
                                   ELSE a.reported[Len(a.reported)]

\* the result of invocation p is the one of a run alone
OwnResult(p) ==
    LET f == frames[p]
        a == answered[p]
    IN  /\ (f.pc = "list" /\ a.err = NoErr) => f.results = AloneResults(p)
        /\ (f.pc \in {"delete", "done"} /\ a.err = NoErr) =>
              IF f.op = "ListOldPipelines"
                 THEN f.ret = [returned |-> TRUE, items |-> AloneResults(p),
                               hasSummary |-> FALSE, summary |-> EmptySummary,
                               err |-> NoErr]
                 ELSE /\ f.pipelines = AloneResults(p)
                      /\ f.result = AloneSummary(p)
                      /\ f.pc = "done" =>
                            /\ f.ret.returned /\ f.ret.hasSummary /\ f.ret.err = NoErr
                            /\ f.ret.summary = AloneSummary(p)
                            /\ Len(a.outcomes) = Len(AloneResults(p))
        /\ a.err # NoErr =>
              /\ f.pc = "done"
              /\ f.ret.returned /\ ~f.ret.hasSummary
              /\ f.ret.items = <<>>
              /\ f.ret.err = WrapListError(a.err)
              /\ a.outcomes = <<>>

C27_WitnessInterleaved ==
    /\ frames[1].pc = "list" /\ frames[2].pc = "list"
    /\ Len(answered[1].requested) = 1 /\ Len(answered[2].requested) = 1
    /\ Len(answered[1].rows) = 1 /\ Len(answered[2].rows) = 1
    /\ Len(frames[1].results) = 1
    /\ frames[2].results = <<>>

====
